---- MODULE Spec2Model ----
(***************************************************************************)
(* Model of the Techgini Telegram bot (src/main.py): the polling loop that *)
(* dispatches one inbound message at a time to complaint_cmd or            *)
(* handle_message, the classifier client call_gemini, the tier mapping     *)
(* color_from_result, the retrying sender send_safe_reply and the          *)
(* in-memory session store bot_user_data.                                  *)
(***************************************************************************)
EXTENDS Integers, Sequences, FiniteSets, TLC

(* ------------------------------ bounds --------------------------------- *)
NumUsers == 2
MaxMsgs == 3
GateMsgs == 1
MaxTextLen == 5
MaxDraftLen == 1
MaxRespLen == 6
NumThreads == 2
ConcMsgs == 3

(* ------------------------- program constants --------------------------- *)
MinTextLen == 5
FakeThreshold == 65
RealThreshold == 60
FallbackConfidence == 40
MaxAttempts == 3
LastSleepAttempt == 2
BackoffBase == 2

Users == 1..NumUsers

(* ------------------------------ strings -------------------------------- *)
\* A string is a sequence of one-character strings.
SeqsUpTo(S, n) == UNION {[1..k -> S] : k \in 0..n}

MinOf(S) == CHOOSE x \in S : \A y \in S : x <= y
MaxOf(S) == CHOOSE x \in S : \A y \in S : x >= y

\* str.lstrip(): drops leading whitespace only.
LStrip(s) ==
  LET keep == {i \in 1..Len(s) : s[i] # " "}
  IN  IF keep = {} THEN <<>> ELSE SubSeq(s, MinOf(keep), Len(s))

\* str.strip(): drops leading and trailing whitespace, keeps inner whitespace.
Strip(s) ==
  LET keep == {i \in 1..Len(s) : s[i] # " "}
  IN  IF keep = {} THEN <<>> ELSE SubSeq(s, MinOf(keep), MaxOf(keep))

\* str.find(c): 0-based index of the first occurrence, -1 when absent.
Find(s, c) ==
  LET hit == {i \in 1..Len(s) : s[i] = c}
  IN  IF hit = {} THEN -1 ELSE MinOf(hit) - 1

\* str.rfind(c): 0-based index of the last occurrence, -1 when absent.
RFind(s, c) ==
  LET hit == {i \in 1..Len(s) : s[i] = c}
  IN  IF hit = {} THEN -1 ELSE MaxOf(hit) - 1

\* A slice that leaves out the character before its end.
PySliceShort(s, a, b) ==
  LET i(k) == IF k < 0 THEN (IF k + Len(s) < 0 THEN 0 ELSE k + Len(s))
              ELSE IF k > Len(s) THEN Len(s) ELSE k
  IN  SubSeq(s, i(a) + 1, i(b) - 1)

\* Python slice s[a:b]: a negative index counts from the end, both ends are
\* clamped to 0..len(s), and an empty range gives the empty string.
PyIndex(s, i) ==
  LET k == IF i < 0 THEN i + Len(s) ELSE i
  IN  IF k < 0 THEN 0 ELSE IF k > Len(s) THEN Len(s) ELSE k
PySlice(s, a, b) == SubSeq(s, PyIndex(s, a) + 1, PyIndex(s, b))

(* ------------------------------ messages ------------------------------- *)
None == <<"None">>
CommandText == <<"/", "c">>          \* the text "/complaint"
TextChars == {" ", "x"}
Texts == SeqsUpTo(TextChars, MaxTextLen)
InboundTexts == Texts \cup {None, CommandText}
\* The inbound texts of the multi-message specification: no text, a text of
\* five characters and the command.
TextSamples == {None, <<"x", "x", "x", "x", "x">>, CommandText}

NoMsg == [id |-> 0, from_user |-> 0, text |-> None]

\* commands=["complaint"] is registered before the catch-all handler.
IsComplaintCommand(m) == m.text = CommandText

\* text = message.text or ""
TextOf(m) == IF m.text = None THEN <<>> ELSE m.text

(* ------------------------------ verdicts ------------------------------- *)
\* A parsed JSON object, field by field.  result is the label string or
\* "missing"; confidence is tagged with the JSON type of its value; the
\* why_card fields are "text", "nontext" (a JSON value that is no string) or
\* "missing"; evidence is a list.
Num(n) == [t |-> "num", n |-> n]
BadStr == [t |-> "badstr", n |-> 0]      \* a non-numeric string such as "high"
Null == [t |-> "null", n |-> 0]
Missing == [t |-> "missing", n |-> 0]

Verdict(res, conf, rsn, en, hi, ev) ==
  [result |-> res, confidence |-> conf, reason |-> rsn,
   why_card_en |-> en, why_card_hi |-> hi, evidence |-> ev]

EmptyDict == Verdict("missing", Missing, "missing", "missing", "missing", <<>>)

\* The fixed fallback dictionary of call_gemini.
Fallback ==
  Verdict("UNSURE", Num(FallbackConfidence), "AI response parse failed",
          "text", "text", <<>>)

NoJ == Verdict("none", Missing, "none", "none", "none", <<>>)

Labels == {"FAKE", "REAL", "UNSURE"}

(* --------------------------- exception routing ------------------------- *)
\* Which except clause catches an exception raised at a call site, from the
\* try/except nesting of the source:
\*   json.loads                        inside try of call_gemini (48-56)
\*   model.generate_content, resp.text in call_gemini before its try (45, 47),
\*                                     reached from the try of handle_message
\*   float(), str + value              color_from_result / reply building,
\*                                     reached from the try of handle_message
\*   generate_complaint_text           inner try of handle_message (122-128)
\*   bot.reply_to                      try of send_safe_reply (71-77)
\* The same nesting without the try of handle_message (102-134).
CatcherNoOuterTry(site) ==
  CASE site = "json.loads" -> "call_gemini.except"
    [] site = "generate_complaint_text" -> "handle_message.inner_except"
    [] site = "bot.reply_to" -> "send_safe_reply.except"
    [] OTHER -> "uncaught"

\* The same nesting without the inner try of handle_message (122-128): a
\* drafting failure reaches the outer try.
CatcherNoInnerTry(site) ==
  CASE site = "json.loads" -> "call_gemini.except"
    [] site \in {"generate_content", "resp.text", "float", "concat",
                 "generate_complaint_text"}
         -> "handle_message.except"
    [] site = "bot.reply_to" -> "send_safe_reply.except"
    [] OTHER -> "uncaught"

\* The same nesting without the try of call_gemini (48-56): a parse error
\* reaches the try of handle_message.
CatcherNoParseTry(site) ==
  CASE site \in {"json.loads", "generate_content", "resp.text", "float", "concat"}
         -> "handle_message.except"
    [] site = "generate_complaint_text" -> "handle_message.inner_except"
    [] site = "bot.reply_to" -> "send_safe_reply.except"
    [] OTHER -> "uncaught"

Catcher(site) ==
  CASE site = "json.loads" -> "call_gemini.except"
    [] site \in {"generate_content", "resp.text", "float", "concat"}
         -> "handle_message.except"
    [] site = "generate_complaint_text" -> "handle_message.inner_except"
    [] site = "bot.reply_to" -> "send_safe_reply.except"
    [] OTHER -> "uncaught"

(* ----------------------------- call_gemini ----------------------------- *)
\* A response text is a sequence over RespChars: the braces, "p" for a
\* character of prose, "m" for the text of a well-formed member list
\* ("result": ..., "confidence": ..., ...) and whitespace.
RespChars == {"{", "}", "p", "m", " "}
RespTexts == SeqsUpTo(RespChars, MaxRespLen)

\* json.loads on such a text: whitespace between tokens is insignificant; the
\* text is a JSON document exactly when it is one object, "{" members "}" or
\* the empty object "{}".  payload is the dictionary the member list denotes.
JsonLoads(s, payload) ==
  LET toks == SelectSeq(s, LAMBDA c : c # " ")
  IN  IF toks = <<"{", "m", "}">> THEN [ok |-> TRUE, j |-> payload]
      ELSE IF toks = <<"{", "}">> THEN [ok |-> TRUE, j |-> EmptyDict]
      ELSE [ok |-> FALSE, j |-> NoJ]

\* Lines 47-56 of call_gemini, once the model call has returned resp.text.
ParseResponse(resp_text, payload) ==
  LET text == Strip(resp_text)
      start == Find(text, "{")
      end == RFind(text, "}") + 1
      r == JsonLoads(PySlice(text, start, end), payload)
  IN  IF r.ok THEN [raised |-> FALSE, j |-> r.j]
      ELSE IF Catcher("json.loads") = "call_gemini.except"
           THEN [raised |-> FALSE, j |-> Fallback]
           ELSE [raised |-> TRUE, j |-> NoJ]

(* -------------------------- color_from_result -------------------------- *)
\* float(x) of a JSON value: defined on numbers only.
Float(v) == [ok |-> v.t = "num", n |-> v.n]

\* The tier with the FAKE threshold exclusive.
TierExclusive(res, conf) ==
  IF res = "FAKE" /\ conf > FakeThreshold THEN "RED"
  ELSE IF res = "REAL" /\ conf >= RealThreshold THEN "GREEN"
  ELSE "YELLOW"

Tier(res, conf) ==
  IF res = "FAKE" /\ conf >= FakeThreshold THEN "RED"
  ELSE IF res = "REAL" /\ conf >= RealThreshold THEN "GREEN"
  ELSE "YELLOW"

color_from_result(j) ==
  LET res == IF j.result = "missing" THEN "UNSURE" ELSE j.result
      f == Float(IF j.confidence = Missing THEN Num(0) ELSE j.confidence)
  IN  IF f.ok THEN [raised |-> FALSE, color |-> Tier(res, f.n)]
      ELSE [raised |-> TRUE, color |-> "-"]

\* Lines 114-117: the reply is built by string concatenation; the f-string
\* fields accept any value, "..." + j.get("why_card_en", "-") needs a string.
BuildRaises(j) == j.why_card_en = "nontext" \/ j.why_card_hi = "nontext"

(* ------------------------------ replies -------------------------------- *)
ComplaintHeader == "Auto complaint text:"

Reply(kind, color, note, body) ==
  [kind |-> kind, color |-> color, note |-> note, body |-> body]

PromptReply == Reply("prompt", "-", "-", <<>>)          \* line 97
AckReply == Reply("ack", "-", "-", <<>>)                \* line 100
ErrorReply == Reply("error", "-", "-", <<>>)            \* line 134
NoItemReply == Reply("no_item", "-", "-", <<>>)         \* line 88
ClassificationReply(color, note) == Reply("classification", color, note, <<>>)
\* line 90: header + data["last_complaint"]
ComplaintReply(text) == Reply("complaint", "-", "-", <<ComplaintHeader>> \o text)
NoReply == Reply("none", "-", "-", <<>>)

(* ------------------------- generate_complaint_text --------------------- *)
\* The drafting model answers with any text; line 150 returns resp.text.strip().
DraftChars == {" ", "a"}
RawDrafts == SeqsUpTo(DraftChars, MaxDraftLen)
generate_complaint_text(raw) == Strip(raw)
NoDraft == <<"NoDraft">>

(* ---------------------------- session store ---------------------------- *)
NoData == [last_complaint |-> None]
Record(text) == [last_complaint |-> text]
\* line 125 writes under message.from_user.id, line 86 reads under it.
\* (SharedKey: one slot for everybody.)
SharedKey(m) == 1
StoreKey(m) == m.from_user
LookupKey(m) == m.from_user

(* ------------------------------- state --------------------------------- *)
VARIABLES
  bot_user_data,   \* the session store: user id -> record or NoData
  pc,              \* position of the polling loop / the running handler
  seq,             \* number of messages dispatched so far
  cur,             \* the message being handled (the last one when idle)
  j,               \* what call_gemini returned for cur
  color,           \* what color_from_result returned for cur
  reply,           \* the classification reply under construction
  draft,           \* complaint_text of the running handler
  snd,             \* the frame of the running (or last) send_safe_reply call
  handed,          \* replies the handler of cur gave to send_safe_reply
  calls,           \* external model calls made by the handler of cur
  failed,          \* call sites that raised while cur was handled
  escaped,         \* an exception left a handler
  hist,            \* history: provenance of stored drafts, completed handlers
  fin, fout,       \* input and output of a function applied on its own
  conc             \* the handlers running on the threads of a worker pool

vars == <<bot_user_data, pc, seq, cur, j, color, reply, draft, snd, handed,
          calls, failed, escaped, hist, fin, fout, conc>>

mainvars == <<bot_user_data, pc, seq, cur, j, color, reply, draft, snd,
              handed, calls, failed, escaped, hist, conc>>

IdleSend ==
  [text |-> NoReply, attempt |-> 0, sleeps |-> <<>>, delivered |-> 0,
   result |-> "none", ret |-> "idle"]

NoProv == [user |-> 0, id |-> 0]

\* A thread of the pool: its position in the handler, its message, the
\* reply under construction, complaint_text, the reply it handed to
\* send_safe_reply last, where it goes on after that send, and whether a
\* handler for the same user was running when it read the store, the
\* message the text it read was drafted for, and the latest message of the
\* user drafted by a handler that had returned by then.
Threads == 1..NumThreads
IdleThread ==
  [pc |-> "idle", msg |-> NoMsg, reply |-> NoReply, draft |-> NoDraft,
   out |-> NoReply, ret |-> "idle", overlapped |-> FALSE, src |-> 0,
   latest |-> 0]
\* drafted[u]: the latest message of u whose handler has returned after a
\* successful draft.
ConcInit ==
  [pool |-> [w \in Threads |-> IdleThread], drafted |-> [u \in Users |-> 0]]
NoPrev == [user |-> 0, draft |-> NoDraft]

InitMain ==
  /\ bot_user_data = [u \in Users |-> NoData]
  /\ pc = "idle"
  /\ seq = 0
  /\ cur = NoMsg
  /\ j = NoJ
  /\ color = "-"
  /\ reply = NoReply
  /\ draft = NoDraft
  /\ snd = IdleSend
  /\ handed = <<>>
  /\ calls = [classify |-> 0, draft |-> 0]
  /\ failed = {}
  /\ escaped = FALSE
  /\ conc = ConcInit
  /\ hist = [prov |-> [u \in Users |-> NoProv],
             lastRed |-> [u \in Users |-> 0],
             drafted |-> {},
             prev |-> NoPrev,
             before |-> [u \in Users |-> NoData]]

NoIn == [text |-> None, j |-> NoJ]
NoOut == [raised |-> FALSE, color |-> "none", j |-> NoJ]

Init == InitMain /\ fin = NoIn /\ fout = NoOut

(* --------------------------- send_safe_reply --------------------------- *)
\* time.sleep(1): a delay that does not grow.
FixedDelay(attempt) == 1

\* time.sleep(2 ** attempt)
BackoffDelay(attempt) == BackoffBase ^ attempt

\* line 76 without its condition: sleep after every failed attempt.
SleepAlways(attempt) == TRUE

\* line 76: if attempt < 2 (no sleep after the last attempt)
ShouldSleep(attempt) == attempt < LastSleepAttempt

\* Entering send_safe_reply(message, text): the loop starts at attempt 0.
BeginSend(text, ret) ==
  /\ snd' = [text |-> text, attempt |-> 0, sleeps |-> <<>>, delivered |-> 0,
             result |-> "none", ret |-> ret]
  /\ handed' = Append(handed, text)
  /\ pc' = "send"

\* An exception nobody catches leaves the handler and stops the loop.
Propagate ==
  /\ pc' = "crashed"
  /\ escaped' = TRUE

\* One iteration of the loop in which bot.reply_to returns: return True.
SendOk ==
  /\ pc = "send"
  /\ snd.attempt < MaxAttempts
  /\ snd' = [snd EXCEPT !.delivered = @ + 1, !.result = "True"]
  /\ pc' = snd.ret
  /\ UNCHANGED <<bot_user_data, seq, cur, j, color, reply, draft, handed,
                 calls, failed, escaped, hist, fin, fout, conc>>

\* One iteration in which bot.reply_to raises: sleep unless this was the
\* last attempt, then go round again; after the last attempt return False.
SendFail ==
  /\ pc = "send"
  /\ snd.attempt < MaxAttempts
  /\ failed' = failed \cup {"bot.reply_to"}
  /\ IF Catcher("bot.reply_to") = "send_safe_reply.except"
     THEN /\ snd' = [snd EXCEPT
                  !.sleeps = IF ShouldSleep(snd.attempt)
                             THEN Append(@, BackoffDelay(snd.attempt)) ELSE @,
                  !.attempt = @ + 1,
                  !.result = IF snd.attempt + 1 < MaxAttempts
                             THEN "none" ELSE "False"]
          /\ pc' = IF snd.attempt + 1 < MaxAttempts THEN "send" ELSE snd.ret
          /\ UNCHANGED escaped
     ELSE /\ Propagate
          /\ UNCHANGED snd
  /\ UNCHANGED <<bot_user_data, seq, cur, j, color, reply, draft, handed,
                 calls, hist, fin, fout, conc>>

(* ----------------------------- polling loop ---------------------------- *)
\* bot.infinity_polling() takes the next update and calls the first handler
\* that matches it.
DispatchFrom(texts, limit) ==
  /\ pc = "idle"
  /\ seq < limit
  /\ \E u \in Users, t \in texts :
       LET m == [id |-> seq + 1, from_user |-> u, text |-> t]
       IN  /\ cur' = m
           /\ pc' = IF IsComplaintCommand(m) THEN "complaint_cmd"
                    ELSE "handle_message"
  /\ seq' = seq + 1
  /\ j' = NoJ
  /\ color' = "-"
  /\ reply' = NoReply
  /\ draft' = NoDraft
  /\ snd' = IdleSend
  /\ handed' = <<>>
  /\ calls' = [classify |-> 0, draft |-> 0]
  /\ failed' = {}
  /\ UNCHANGED <<bot_user_data, escaped, hist, fin, fout, conc>>

Dispatch == DispatchFrom(TextSamples, MaxMsgs)
DispatchAny == DispatchFrom(InboundTexts, GateMsgs)

\* The handler returns to the polling loop; its locals are gone.
Return ==
  /\ pc = "done"
  /\ pc' = "idle"
  /\ cur' = NoMsg
  /\ j' = NoJ
  /\ color' = "-"
  /\ reply' = NoReply
  /\ draft' = NoDraft
  /\ snd' = IdleSend
  /\ handed' = <<>>
  /\ calls' = [classify |-> 0, draft |-> 0]
  /\ failed' = {}
  /\ hist' = [hist EXCEPT
       !.lastRed[cur.from_user] = IF calls.draft > 0 THEN cur.id ELSE @,
       !.prev = [user |-> cur.from_user, draft |-> draft],
       !.before = bot_user_data]
  /\ UNCHANGED <<bot_user_data, seq, escaped, fin, fout, conc>>

(* ----------------------------- complaint_cmd --------------------------- *)
ComplaintCmd ==
  /\ pc = "complaint_cmd"
  /\ LET data == bot_user_data[LookupKey(cur)]
     IN  IF data = NoData
         THEN BeginSend(NoItemReply, "done")
         ELSE BeginSend(ComplaintReply(data.last_complaint), "done")
  /\ UNCHANGED <<bot_user_data, seq, cur, j, color, reply, draft, calls,
                 failed, escaped, hist, fin, fout, conc>>

(* ----------------------------- handle_message -------------------------- *)
\* Lines 94-98 and then straight to line 102: no acknowledgement is sent
\* before the classification.
HandleGateNoAck ==
  /\ pc = "handle_message"
  /\ IF Len(Strip(TextOf(cur))) < MinTextLen
     THEN BeginSend(PromptReply, "done")
     ELSE pc' = "call_gemini" /\ UNCHANGED <<snd, handed>>
  /\ UNCHANGED <<bot_user_data, seq, cur, j, color, reply, draft, calls,
                 failed, escaped, hist, fin, fout, conc>>

\* Lines 94-100: the length gate, then the acknowledgement.
HandleGate ==
  /\ pc = "handle_message"
  /\ IF Len(Strip(TextOf(cur))) < MinTextLen
     THEN BeginSend(PromptReply, "done")
     ELSE BeginSend(AckReply, "call_gemini")
  /\ UNCHANGED <<bot_user_data, seq, cur, j, color, reply, draft, calls,
                 failed, escaped, hist, fin, fout, conc>>

\* Where control goes when a call site inside handle_message raises.
RaiseAt(site) ==
  /\ failed' = failed \cup {site}
  /\ IF Catcher(site) = "handle_message.except"
     THEN pc' = "except" /\ UNCHANGED escaped
     ELSE Propagate

\* What the classification model may answer: sample response texts (a bare
\* object, an object inside prose, the empty object, prose only, two
\* objects) and the dictionaries a member list may denote (a FAKE at and
\* below its threshold, a REAL, a confidence that is no number, an
\* explanation that is no string).
RespSamples ==
  { <<"{", "m", "}">>, <<"p", "{", "m", "}", "p">>, <<"{", "}">>, <<"p">>,
    <<"{", "m", "}", "{", "m", "}">> }
Payloads ==
  { Verdict("FAKE", Num(65), "model reason", "text", "text", <<"src">>),
    Verdict("FAKE", Num(64), "model reason", "text", "text", <<"src">>),
    Verdict("REAL", Num(60), "model reason", "text", "text", <<"src">>),
    Verdict("FAKE", BadStr, "model reason", "text", "text", <<"src">>),
    Verdict("FAKE", Num(65), "model reason", "nontext", "text", <<"src">>) }

\* Line 103, call_gemini(text): model.generate_content or resp.text raises.
ClassifyRaise ==
  /\ pc = "call_gemini"
  /\ calls' = [calls EXCEPT !.classify = @ + 1]
  /\ \E site \in {"generate_content", "resp.text"} : RaiseAt(site)
  /\ UNCHANGED <<bot_user_data, seq, cur, j, color, reply, draft, snd,
                 handed, hist, fin, fout, conc>>

\* Line 103, call_gemini(text): the model answers and the answer is parsed.
ClassifyReturn ==
  /\ pc = "call_gemini"
  /\ calls' = [calls EXCEPT !.classify = @ + 1]
  /\ \E t \in RespSamples, p \in Payloads :
       LET r == ParseResponse(t, p)
       IN  IF r.raised
           THEN RaiseAt("json.loads") /\ UNCHANGED j
           ELSE /\ j' = r.j
                /\ pc' = "process"
                /\ UNCHANGED <<failed, escaped>>
  /\ UNCHANGED <<bot_user_data, seq, cur, color, reply, draft, snd, handed,
                 hist, fin, fout, conc>>

\* Line 130 moved under "if color == RED": other tiers get no reply.
AfterBuildRedOnly(c) == IF c = "RED" THEN "draft" ELSE "done"

\* Lines 120 and 130: drafting for the tier RED, then the final reply.
AfterBuild(c) == IF c = "RED" THEN "draft" ELSE "final"

\* Lines 104-117: the tier, then the reply text.
Process ==
  /\ pc = "process"
  /\ LET c == color_from_result(j)
     IN  IF c.raised
         THEN RaiseAt("float") /\ UNCHANGED <<color, reply>>
         ELSE /\ color' = c.color
              /\ IF BuildRaises(j)
                 THEN RaiseAt("concat") /\ UNCHANGED reply
                 ELSE /\ reply' = ClassificationReply(c.color, "-")
                      /\ pc' = AfterBuild(c.color)
                      /\ UNCHANGED <<failed, escaped>>
  /\ UNCHANGED <<bot_user_data, seq, cur, j, draft, snd, handed, calls,
                 hist, fin, fout, conc>>

\* Lines 122-125: the draft is returned, the hint appended, the draft stored.
DraftOk ==
  /\ pc = "draft"
  /\ calls' = [calls EXCEPT !.draft = @ + 1]
  /\ \E raw \in RawDrafts :
       LET complaint_text == generate_complaint_text(raw)
       IN  /\ draft' = complaint_text
           /\ bot_user_data' =
                [bot_user_data EXCEPT ![StoreKey(cur)] = Record(complaint_text)]
  /\ reply' = [reply EXCEPT !.note = "hint"]
  /\ hist' = [hist EXCEPT
       !.prov[StoreKey(cur)] = [user |-> cur.from_user, id |-> cur.id],
       !.drafted = @ \cup {cur.from_user}]
  /\ pc' = "final"
  /\ UNCHANGED <<seq, cur, j, color, snd, handed, failed, escaped, fin, fout, conc>>

\* Lines 122-128: generate_complaint_text raises, the notice is appended.
DraftFail ==
  /\ pc = "draft"
  /\ calls' = [calls EXCEPT !.draft = @ + 1]
  /\ failed' = failed \cup {"generate_complaint_text"}
  /\ IF Catcher("generate_complaint_text") = "handle_message.inner_except"
     THEN /\ reply' = [reply EXCEPT !.note = "unavailable"]
          /\ pc' = "final"
          /\ UNCHANGED escaped
     ELSE IF Catcher("generate_complaint_text") = "handle_message.except"
     THEN pc' = "except" /\ UNCHANGED <<reply, escaped>>
     ELSE Propagate /\ UNCHANGED reply
  /\ UNCHANGED <<bot_user_data, seq, cur, j, color, draft, snd, handed,
                 hist, fin, fout, conc>>

\* Line 130.
FinalReply ==
  /\ pc = "final"
  /\ BeginSend(reply, "done")
  /\ UNCHANGED <<bot_user_data, seq, cur, j, color, reply, draft, calls,
                 failed, escaped, hist, fin, fout, conc>>

\* Lines 132-134.
Except ==
  /\ pc = "except"
  /\ BeginSend(ErrorReply, "done")
  /\ UNCHANGED <<bot_user_data, seq, cur, j, color, reply, draft, calls,
                 failed, escaped, hist, fin, fout, conc>>

(* --------------------------- specifications ---------------------------- *)
HandlerStep ==
  \/ ComplaintCmd
  \/ HandleGate
  \/ SendOk
  \/ SendFail
  \/ ClassifyRaise
  \/ ClassifyReturn
  \/ Process
  \/ DraftOk
  \/ DraftFail
  \/ FinalReply
  \/ Except
  \/ Return

Next == Dispatch \/ HandlerStep

Spec == Init /\ [][Next]_vars

\* Every call a handler makes is synchronous and returns or raises, so a
\* handler that has started keeps taking steps until it returns.
FairSpec == Spec /\ WF_vars(HandlerStep)

\* One inbound message with any text up to MaxTextLen characters.
NextGate == DispatchAny \/ HandlerStep
SpecGate == Init /\ [][NextGate]_vars
FairGate == SpecGate /\ WF_vars(HandlerStep)

\* color_from_result applied to every verdict with a label and a confidence
\* in 0..100.
ColorInputs ==
  { [text |-> None,
     j |-> Verdict(l, Num(c), "model reason", "text", "text", <<>>)] :
      l \in Labels, c \in 0..100 }
ApplyColor ==
  /\ fout = NoOut
  /\ LET c == color_from_result(fin.j)
     IN  fout' = [raised |-> c.raised, color |-> c.color, j |-> fin.j]
  /\ UNCHANGED <<mainvars, fin>>
InitColor == InitMain /\ fin \in ColorInputs /\ fout = NoOut
SpecColor == InitColor /\ [][ApplyColor]_vars

\* Lines 47-56 of call_gemini applied to every response text up to
\* MaxRespLen characters.
ParseInputs ==
  { [text |-> t, j |-> p] :
      t \in RespTexts,
      p \in { Verdict("FAKE", Num(65), "model reason", "text", "text", <<"src">>),
              Verdict("FAKE", BadStr, "model reason", "text", "text", <<"src">>),
              Verdict("REAL", Num(60), "model reason", "nontext", "text", <<>>) } }
ApplyParse ==
  /\ fout = NoOut
  /\ LET r == ParseResponse(fin.text, fin.j)
     IN  fout' = [raised |-> r.raised, color |-> "parsed", j |-> r.j]
  /\ UNCHANGED <<mainvars, fin>>
InitParse == InitMain /\ fin \in ParseInputs /\ fout = NoOut
SpecParse == InitParse /\ [][ApplyParse]_vars

(* ------------------------- handlers on a thread pool ------------------- *)
\* The polling loop hands every update to a free thread of a worker pool,
\* so several handlers run at once.  A thread is preempted only around its
\* blocking calls (the model call, the delivery); what lies between two of
\* them, a dictionary read or write of the store included, is one step.
\* send_safe_reply touches no shared state and is one step here.
Thread(w) == conc.pool[w]
SetThread(w, t) == conc' = [conc EXCEPT !.pool[w] = t]
SeqFrame ==
  UNCHANGED <<pc, cur, j, color, reply, draft, snd, handed, calls, failed,
              escaped, fin, fout>>
HandOver(t, text, ret) == [t EXCEPT !.out = text, !.pc = "send", !.ret = ret]
\* The except clause of handle_message, or nobody.
ThreadRaise(site) ==
  IF Catcher(site) = "handle_message.except" THEN "except" ELSE "crashed"

CDispatch(w) ==
  /\ Thread(w).pc = "idle"
  /\ seq < ConcMsgs
  /\ \E u \in Users, t \in TextSamples :
       LET m == [id |-> seq + 1, from_user |-> u, text |-> t]
       IN  SetThread(w, [IdleThread EXCEPT
                           !.msg = m,
                           !.pc = IF IsComplaintCommand(m)
                                  THEN "complaint_cmd" ELSE "handle_message"])
  /\ seq' = seq + 1
  /\ UNCHANGED <<bot_user_data, hist>>
  /\ SeqFrame

\* Lines 86-90.
CComplaintCmd(w) ==
  /\ Thread(w).pc = "complaint_cmd"
  /\ LET m == Thread(w).msg
         data == bot_user_data[LookupKey(m)]
         busy == \E v \in Threads \ {w} :
                   /\ Thread(v).pc # "idle"
                   /\ Thread(v).msg.from_user = m.from_user
                   /\ ~IsComplaintCommand(Thread(v).msg)
         t == [Thread(w) EXCEPT !.overlapped = busy,
                                !.src = hist.prov[LookupKey(m)].id,
                                !.latest = conc.drafted[m.from_user]]
     IN  IF data = NoData
         THEN SetThread(w, HandOver(t, NoItemReply, "done"))
         ELSE SetThread(w, HandOver(t, ComplaintReply(data.last_complaint),
                                    "done"))
  /\ UNCHANGED <<bot_user_data, seq, hist>>
  /\ SeqFrame

\* Lines 94-100.
CGate(w) ==
  /\ Thread(w).pc = "handle_message"
  /\ IF Len(Strip(TextOf(Thread(w).msg))) < MinTextLen
     THEN SetThread(w, HandOver(Thread(w), PromptReply, "done"))
     ELSE SetThread(w, HandOver(Thread(w), AckReply, "call_gemini"))
  /\ UNCHANGED <<bot_user_data, seq, hist>>
  /\ SeqFrame

\* Lines 67-78: send_safe_reply returns, True or False.
CSend(w) ==
  /\ Thread(w).pc = "send"
  /\ SetThread(w, [Thread(w) EXCEPT !.pc = Thread(w).ret])
  /\ UNCHANGED <<bot_user_data, seq, hist>>
  /\ SeqFrame

\* Lines 103-117: the classification call raises.
CClassifyRaise(w) ==
  /\ Thread(w).pc = "call_gemini"
  /\ \E site \in {"generate_content", "resp.text"} :
       SetThread(w, [Thread(w) EXCEPT !.pc = ThreadRaise(site)])
  /\ UNCHANGED <<bot_user_data, seq, hist>>
  /\ SeqFrame

\* Lines 103-117: the classification call returns, the tier is computed and
\* the reply built.
CClassify(w) ==
  /\ Thread(w).pc = "call_gemini"
  /\ \E t \in RespSamples, p \in Payloads :
       LET r == ParseResponse(t, p)
           c == color_from_result(r.j)
       IN  IF r.raised
           THEN SetThread(w, [Thread(w) EXCEPT !.pc = ThreadRaise("json.loads")])
           ELSE IF c.raised
           THEN SetThread(w, [Thread(w) EXCEPT !.pc = ThreadRaise("float")])
           ELSE IF BuildRaises(r.j)
           THEN SetThread(w, [Thread(w) EXCEPT !.pc = ThreadRaise("concat")])
           ELSE SetThread(w, [Thread(w) EXCEPT
                                !.reply = ClassificationReply(c.color, "-"),
                                !.pc = AfterBuild(c.color)])
  /\ UNCHANGED <<bot_user_data, seq, hist>>
  /\ SeqFrame

\* Lines 122-125: generate_complaint_text returns, the draft is stored.
CDraftOk(w) ==
  /\ Thread(w).pc = "draft"
  /\ \E raw \in RawDrafts :
       LET complaint_text == generate_complaint_text(raw)
       IN  /\ SetThread(w, [Thread(w) EXCEPT !.draft = complaint_text,
                                             !.reply.note = "hint",
                                             !.pc = "final"])
           /\ bot_user_data' =
                [bot_user_data EXCEPT
                   ![StoreKey(Thread(w).msg)] = Record(complaint_text)]
  /\ hist' = [hist EXCEPT
       !.prov[StoreKey(Thread(w).msg)] =
          [user |-> Thread(w).msg.from_user, id |-> Thread(w).msg.id]]
  /\ UNCHANGED seq
  /\ SeqFrame

\* Lines 122-128: generate_complaint_text raises.
CDraftFail(w) ==
  /\ Thread(w).pc = "draft"
  /\ SetThread(w,
       IF Catcher("generate_complaint_text") = "handle_message.inner_except"
       THEN [Thread(w) EXCEPT !.reply.note = "unavailable", !.pc = "final"]
       ELSE [Thread(w) EXCEPT !.pc = ThreadRaise("generate_complaint_text")])
  /\ UNCHANGED <<bot_user_data, seq, hist>>
  /\ SeqFrame

\* Line 130.
CFinalReply(w) ==
  /\ Thread(w).pc = "final"
  /\ SetThread(w, HandOver(Thread(w), Thread(w).reply, "done"))
  /\ UNCHANGED <<bot_user_data, seq, hist>>
  /\ SeqFrame

\* Lines 132-134.
CExcept(w) ==
  /\ Thread(w).pc = "except"
  /\ SetThread(w, HandOver(Thread(w), ErrorReply, "done"))
  /\ UNCHANGED <<bot_user_data, seq, hist>>
  /\ SeqFrame

\* The handler returns and the thread is free again.
CReturn(w) ==
  /\ Thread(w).pc = "done"
  /\ LET m == Thread(w).msg
     IN  conc' = [conc EXCEPT
           !.pool[w] = IdleThread,
           !.drafted[m.from_user] =
              IF Thread(w).draft # NoDraft /\ m.id > @ THEN m.id ELSE @]
  /\ UNCHANGED <<bot_user_data, seq, hist>>
  /\ SeqFrame

NextConc ==
  \E w \in Threads :
    \/ CDispatch(w)
    \/ CComplaintCmd(w)
    \/ CGate(w)
    \/ CSend(w)
    \/ CClassifyRaise(w)
    \/ CClassify(w)
    \/ CDraftOk(w)
    \/ CDraftFail(w)
    \/ CFinalReply(w)
    \/ CExcept(w)
    \/ CReturn(w)

SpecConc == Init /\ [][NextConc]_vars

(* ------------------------------- claims -------------------------------- *)
\* The length of a text between its first and its last non-blank character.
TrimmedLen(t) ==
  LET solid == {i \in 1..Len(t) : t[i] # " "}
  IN  IF solid = {} THEN 0
      ELSE 1 + (CHOOSE b \in solid : \A i \in solid : i <= b)
             - (CHOOSE a \in solid : \A i \in solid : a <= i)

IsTextMessage(m) == m # NoMsg /\ m.text # CommandText
ShortMessage(m) ==
  IsTextMessage(m) /\ (m.text = None \/ TrimmedLen(m.text) < 5)
LongMessage(m) ==
  IsTextMessage(m) /\ m.text # None /\ TrimmedLen(m.text) >= 5

\* C1: once handle_message has passed its length gate for a message whose
\* trimmed text has fewer than 5 characters (or that has no text), the
\* classifier has not been called, the one reply handed to send_safe_reply
\* is the "send the suspicious message text" prompt, no acknowledgement was
\* sent, and the handler returns when that send ends.
C1_ShortTextOnlyPrompted ==
  (ShortMessage(cur) /\ pc # "handle_message") =>
     /\ calls.classify = 0
     /\ calls.draft = 0
     /\ handed = <<PromptReply>>
     /\ pc \in {"send", "done"}
     /\ snd.ret = "done"

\* A text of five characters of which four remain after trimming has been
\* answered with the prompt and the handler is about to return.
C1_Witness ==
  /\ pc = "done"
  /\ cur.text \in {<<"x", "x", "x", "x", " ">>, <<" ", "x", "x", "x", "x">>}
  /\ handed = <<PromptReply>>

\* C2: for every label in {FAKE, REAL, UNSURE} and confidence in 0..100,
\* color_from_result returns RED exactly when the label is FAKE and the
\* confidence is at least 65, GREEN exactly when the label is REAL and the
\* confidence is at least 60, and YELLOW otherwise (so always for UNSURE).
C2_TierThresholds ==
  fout # NoOut =>
    LET l == fin.j.result
        c == fin.j.confidence.n
    IN  /\ ~fout.raised
        /\ fout.color \in {"RED", "GREEN", "YELLOW"}
        /\ (fout.color = "RED") <=> (l = "FAKE" /\ c >= 65)
        /\ (fout.color = "GREEN") <=> (l = "REAL" /\ c >= 60)
        /\ (l = "UNSURE") => fout.color = "YELLOW"

\* FAKE with confidence exactly 65 has been mapped to RED.
C2_Witness ==
  /\ fout # NoOut
  /\ fin.j.result = "FAKE"
  /\ fin.j.confidence.n = 65
  /\ fout.color = "RED"

\* The reply complaint_cmd handed to send_safe_reply for cur.
CommandAnswered ==
  /\ cur # NoMsg
  /\ cur.text = CommandText
  /\ pc \in {"send", "done"}
  /\ Len(handed) = 1

\* C3: once the handler of a HIGH_RISK message of user u has completed, a
\* /complaint of u that returns a stored text returns the text drafted for
\* the most recent HIGH_RISK message of u, never one drafted for an older
\* message (also when drafting for the newer message failed).
C3_NeverStaleComplaint ==
  (CommandAnswered /\ handed[1].kind = "complaint"
     /\ hist.lastRed[cur.from_user] > 0) =>
    hist.prov[LookupKey(cur)].id = hist.lastRed[cur.from_user]

\* C4: a /complaint handled right after the handler of a HIGH_RISK message
\* of the same user whose draft succeeded is answered with the header
\* followed by exactly the text generate_complaint_text returned.
C4_FreshComplaintVerbatim ==
  (CommandAnswered /\ hist.prev.user = cur.from_user
     /\ hist.prev.draft # NoDraft) =>
    /\ handed[1].kind = "complaint"
    /\ handed[1].body = <<ComplaintHeader>> \o hist.prev.draft

\* User 2 asked for the complaint right after their HIGH_RISK message was
\* drafted as "a", and the reply carrying it was delivered.
C4_Witness ==
  /\ CommandAnswered
  /\ pc = "done"
  /\ cur.from_user = 2
  /\ hist.prev = [user |-> 2, draft |-> <<"a">>]
  /\ handed[1].body = <<ComplaintHeader, "a">>
  /\ snd.result = "True"

\* C5: a /complaint of a user none of whose messages was ever drafted
\* successfully is answered "no recent red-flagged item found", and a
\* complaint text in a reply to user u was drafted for a message of u.
C5_NoForeignComplaint ==
  CommandAnswered =>
    /\ (cur.from_user \notin hist.drafted) => handed[1] = NoItemReply
    /\ (handed[1].kind = "complaint") =>
          hist.prov[LookupKey(cur)].user = cur.from_user

\* A user without any draft asked for the complaint while another user's
\* draft was stored, and got the "no item" reply.
C5_Witness ==
  /\ CommandAnswered
  /\ cur.from_user \notin hist.drafted
  /\ hist.drafted # {}
  /\ handed[1] = NoItemReply

\* C6: every message whose trimmed text has at least 5 characters and that
\* handle_message has started on leads to a second reply handed to
\* send_safe_reply (the first is the acknowledgement): the classification
\* reply or the generic error reply.
C6_RepliedReached ==
  (LongMessage(cur) /\ pc = "handle_message")
    ~> (Len(handed) = 2 /\ handed[2].kind \in {"classification", "error"})

\* The classification call raised and the generic error reply was handed
\* over as the final reply.
C6_Witness ==
  /\ LongMessage(cur)
  /\ "generate_content" \in failed
  /\ handed = <<AckReply, ErrorReply>>

\* C7: no exception ever leaves handle_message or complaint_cmd, and a
\* handler in which a call has failed still returns to the polling loop.
C7_NoFailureEscapes ==
  /\ [](escaped = FALSE /\ pc # "crashed")
  /\ (failed # {}) ~> (pc = "idle")

\* A handler in which delivery, verdict processing or drafting failed has
\* run to its end.
C7_Witness ==
  /\ pc = "done"
  /\ escaped = FALSE
  /\ \/ {"bot.reply_to", "generate_complaint_text"} \subseteq failed
     \/ {"bot.reply_to", "float"} \subseteq failed

\* The text holds one object with a member list, inside prose or not.
HasObject(t) == SelectSeq(t, LAMBDA c : c \in {"{", "m", "}"}) = <<"{", "m", "}">>
\* The confidence is no number or the English explanation is no text.
WrongTyped(p) == p.confidence.t = "badstr" \/ p.why_card_en = "nontext"

\* C8: a response text holding a JSON object whose confidence is no number
\* or whose explanation is no text makes call_gemini return the fixed
\* fallback verdict (so that the reply is the LOW_CONFIDENCE one).
C8_WrongTypeFallsBack ==
  (fout # NoOut /\ HasObject(fin.text) /\ WrongTyped(fin.j)) =>
    (~fout.raised /\ fout.j = Fallback)

\* No "{" of the text is followed by a "}".
NoBracePair(t) ==
  ~ \E a \in 1..Len(t), b \in 1..Len(t) : a < b /\ t[a] = "{" /\ t[b] = "}"

\* C9: for every response text in which no "{" is followed by a "}",
\* call_gemini raises nothing and returns the fixed fallback verdict
\* (UNSURE, confidence 40, reason "AI response parse failed", no evidence).
C9_NoBracesFallback ==
  (fout # NoOut /\ NoBracePair(fin.text)) =>
    /\ ~fout.raised
    /\ fout.j = Verdict("UNSURE", Num(40), "AI response parse failed",
                        "text", "text", <<>>)

\* A text with "}" before "{" has been answered with the fallback.
C9_Witness ==
  /\ fout # NoOut
  /\ fin.text = <<"}", "m", "{">>
  /\ fout.j.result = "UNSURE"

\* C10: one call of send_safe_reply makes at most 3 attempts, none after a
\* successful one, and has slept 1 second after the first failure and 2
\* seconds after the second, and no more.
C10_BoundedBackoff ==
  /\ snd.attempt + snd.delivered <= 3
  /\ snd.delivered <= 1
  /\ (pc = "send") => (snd.delivered = 0 /\ snd.attempt < 3)
  /\ (snd.delivered = 1) => snd.result = "True"
  /\ (snd.result = "False") => (snd.attempt = 3 /\ snd.delivered = 0)
  /\ snd.sleeps = CASE snd.attempt = 0 -> <<>>
                    [] snd.attempt = 1 -> <<1>>
                    [] OTHER -> <<1, 2>>

\* Two attempts failed, the third delivered: one delivery after the delays
\* 1 and 2.
C10_Witness ==
  /\ snd.attempt = 2
  /\ snd.delivered = 1
  /\ snd.result = "True"
  /\ snd.sleeps = <<1, 2>>

\* C11: once all three attempts of a send_safe_reply call have failed, the
\* call has returned False without an exception, has made no fourth
\* attempt, has slept only after the first two attempts (1 and 2 seconds),
\* has delivered nothing, and the handler goes on: after the
\* acknowledgement to the classification, after a last reply to its return.
C11_ExhaustedSendReturnsFalse ==
  (snd.attempt >= 3) =>
    /\ snd.attempt = 3
    /\ snd.result = "False"
    /\ snd.delivered = 0
    /\ snd.sleeps = <<1, 2>>
    /\ escaped = FALSE
    /\ IF snd.text = AckReply
       THEN pc \in {"call_gemini", "process", "draft", "final", "except"}
       ELSE pc = "done"

\* The acknowledgement was lost after three attempts and the handler has
\* gone on to classify the message.
C11_Witness ==
  /\ snd.attempt = 3
  /\ snd.text = AckReply
  /\ pc = "process"
  /\ handed = <<AckReply>>

\* C12: when drafting fails for a HIGH_RISK verdict, the final reply is the
\* RED classification reply with the "temporarily unavailable" notice (no
\* /complaint hint), the generic error reply is not sent and the session
\* store is as it was when the handler started; drafting is attempted only
\* for the tier RED.
C12_DraftFailureStillReplies ==
  /\ (calls.draft > 0) => (color = "RED" /\ calls.draft = 1)
  /\ ("generate_complaint_text" \in failed) =>
       /\ bot_user_data = hist.before
       /\ pc \in {"final", "send", "done"}
       /\ reply = Reply("classification", "RED", "unavailable", <<>>)
       /\ (pc # "final") =>
            handed = <<AckReply,
                       Reply("classification", "RED", "unavailable", <<>>)>>

\* Drafting failed for a user who already had a stored complaint; the
\* classification reply with the notice was delivered.
C12_Witness ==
  /\ pc = "done"
  /\ "generate_complaint_text" \in failed
  /\ handed[2].note = "unavailable"
  /\ snd.result = "True"
  /\ bot_user_data[cur.from_user] # NoData

\* C13: when the model call made for classification raises, the handler
\* makes that call once, attempts no drafting, leaves the session store as
\* it was, and its final reply is the generic error reply (never a
\* classification reply).
C13_ClassifyFailureGivesErrorReply ==
  (failed \cap {"generate_content", "resp.text"} # {}) =>
    /\ calls.classify = 1
    /\ calls.draft = 0
    /\ bot_user_data = hist.before
    /\ pc \in {"except", "send", "done"}
    /\ handed = IF pc = "except" THEN <<AckReply>>
                ELSE <<AckReply, ErrorReply>>

\* The classification call raised and the error reply was delivered while
\* the sender's stored complaint stayed in place.
C13_Witness ==
  /\ pc = "done"
  /\ "generate_content" \in failed
  /\ handed = <<AckReply, ErrorReply>>
  /\ snd.result = "True"
  /\ bot_user_data[cur.from_user] # NoData

\* C15: the classification call is made only after send_safe_reply has
\* returned for the acknowledgement, delivered or not.
C15_AckBeforeClassify ==
  (pc = "call_gemini" \/ calls.classify > 0) =>
    /\ Len(handed) >= 1
    /\ handed[1] = AckReply
    /\ (pc = "call_gemini") =>
         (handed = <<AckReply>> /\ snd.text = AckReply
            /\ snd.result \in {"True", "False"})

\* The classifier is about to be called for a five-character text whose
\* acknowledgement was lost after three attempts.
C15_Witness ==
  /\ pc = "call_gemini"
  /\ LongMessage(cur)
  /\ snd.text = AckReply
  /\ snd.result = "False"

\* Number of member-list tokens of t between positions a and b.
MembersBetween(t, a, b) == Cardinality({i \in (a + 1)..(b - 1) : t[i] = "m"})
\* Positions a..b of t hold one well-formed object.
ObjectAt(t, a, b) ==
  /\ a < b
  /\ t[a] = "{"
  /\ t[b] = "}"
  /\ \A i \in (a + 1)..(b - 1) : t[i] \in {"m", " "}
  /\ MembersBetween(t, a, b) <= 1
\* The dictionary that object denotes.
ObjectValue(t, a, b, payload) ==
  IF MembersBetween(t, a, b) = 1 THEN payload ELSE EmptyDict

\* C16: when the response text is one well-formed object surrounded by
\* prose without braces, call_gemini returns exactly the dictionary of that
\* object.
C16_ObjectInProse ==
  fout # NoOut =>
    \A a \in 1..Len(fin.text), b \in 1..Len(fin.text) :
      (/\ ObjectAt(fin.text, a, b)
       /\ \A i \in 1..Len(fin.text) :
            (i < a \/ i > b) => fin.text[i] \notin {"{", "}"})
      => (~fout.raised /\ fout.j = ObjectValue(fin.text, a, b, fin.j))

\* An object with prose before and after it has been parsed.
C16_Witness ==
  /\ fout # NoOut
  /\ fin.text = <<"p", " ", "{", "m", "}", "p">>
  /\ fout.j = fin.j
  /\ fin.j.result = "FAKE"

\* C17: whenever the response text holds a well-formed object at its first
\* "{", call_gemini returns the dictionary of that first object, whatever
\* follows it (more braces, a second object).
C17_FirstObjectReturned ==
  fout # NoOut =>
    \A a \in 1..Len(fin.text), b \in 1..Len(fin.text) :
      (/\ ObjectAt(fin.text, a, b)
       /\ \A i \in 1..(a - 1) : fin.text[i] # "{")
      => (~fout.raised /\ fout.j = ObjectValue(fin.text, a, b, fin.j))

\* C18: for a message with at least 5 characters after trimming, the
\* handler hands at most two replies to send_safe_reply, the
\* acknowledgement first, and when it returns it has handed exactly one
\* more: the classification reply or the generic error reply.
C18_ExactlyOneFinalReply ==
  LongMessage(cur) =>
    /\ Len(handed) <= 2
    /\ (Len(handed) >= 1) => handed[1] = AckReply
    /\ (Len(handed) = 2) => handed[2].kind \in {"classification", "error"}
    /\ (pc \in {"done", "idle"}) => Len(handed) = 2

\* A handler ran to its end with the GREEN classification reply as its one
\* final reply, after at least one failed attempt to deliver it.
C18_Witness ==
  /\ pc = "done"
  /\ LongMessage(cur)
  /\ Len(handed) = 2
  /\ handed[2].kind = "classification"
  /\ handed[2].color = "GREEN"
  /\ snd.attempt > 0

\* C19: a step changes the session store only when it is the successful
\* draft of a RED message, and then only the sender's entry, which becomes
\* the new draft; no step removes an entry.
C19_StoreFrame ==
  [][ (bot_user_data' # bot_user_data) =>
        /\ pc = "draft"
        /\ pc' = "final"
        /\ color = "RED"
        /\ draft' # NoDraft
        /\ bot_user_data'[cur.from_user] = [last_complaint |-> draft']
        /\ \A u \in Users :
             /\ (u # cur.from_user) => bot_user_data'[u] = bot_user_data[u]
             /\ (bot_user_data[u] # NoData) => bot_user_data'[u] # NoData
    ]_vars

\* A message of a user that was not HIGH_RISK has been handled to its end
\* and the complaint stored for that user earlier is still there.
C19_Witness ==
  /\ pc = "done"
  /\ color = "YELLOW"
  /\ handed[2].kind = "classification"
  /\ bot_user_data[cur.from_user] # NoData
  /\ bot_user_data = hist.before

\* C20: whenever the classification reply carrying the /complaint hint has
\* been handed to send_safe_reply, the draft of this message is already the
\* sender's stored record, whether or not the reply gets delivered.
C20_StoredBeforeHint ==
  (Len(handed) = 2 /\ handed[2].note = "hint") =>
    /\ draft # NoDraft
    /\ bot_user_data[cur.from_user] = [last_complaint |-> draft]
    /\ hist.prov[cur.from_user] = [user |-> cur.from_user, id |-> cur.id]

\* The reply with the hint was lost after three attempts and the record is
\* stored.
C20_Witness ==
  /\ Len(handed) = 2
  /\ handed[2].note = "hint"
  /\ snd.result = "False"
  /\ pc = "done"
  /\ bot_user_data[cur.from_user] = [last_complaint |-> <<"a">>]

\* C14: with handlers running on several threads, a /complaint that reads
\* the store while no handler of that user is running gets the text drafted
\* for the latest of the user's messages whose handlers drafted a
\* complaint and returned, never that of an earlier one.
C14_ConcurrentLatestWins ==
  \A w \in Threads :
    (/\ conc.pool[w].out.kind = "complaint"
     /\ ~conc.pool[w].overlapped)
    => conc.pool[w].src = conc.pool[w].latest

====
